---- MODULE Spec2Model ----
(***************************************************************************)
(* Frame lifecycle and keyframing state machine of bpvo's VisualOdometry   *)
(* (src/bpvo/vo.cc).  The three frame objects, the slot pointers that are  *)
(* swapped between the roles reference / current / previous, the           *)
(* accumulated pose T_kf and the trajectory are the state; addFrame is one *)
(* atomic action, the queries pointsAtLevel and numPointsAtLevel are two   *)
(* more.  The pose estimator, the frame templating and the point           *)
(* containers are external collaborators: what they return is drawn from   *)
(* small sets.                                                             *)
(***************************************************************************)
EXTENDS Integers, Sequences, FiniteSets, TLC

VARIABLES
  params,       \* _params          (vo.cc:45)  AlgorithmParameters after construction
  frames,       \* the three VisualOdometryFrame objects (vo.cc:108-110), by object id
  ref_frame,    \* _ref_frame       (vo.cc:48)  id of the object the pointer owns
  cur_frame,    \* _cur_frame       (vo.cc:49)
  prev_frame,   \* _prev_frame      (vo.cc:50)
  T_kf,         \* _T_kf            (vo.cc:51)
  trajectory,   \* _trajectory      (vo.cc:52)
  nframes,      \* number of addFrame calls made so far (numbers the submitted images)
  ret,          \* the Result returned by the last addFrame call, until the caller drops it
  call,         \* what the last addFrame call did: entry state, inputs, collaborator calls
  last,         \* the last addFrame call that returned a Result: its image and isKeyFrame
  fnArgs,       \* arguments of a pure function under test
  fnOut         \* its value

vars == <<params, frames, ref_frame, cur_frame, prev_frame, T_kf, trajectory,
          nframes, ret, call, last, fnArgs, fnOut>>

----------------------------------------------------------------------------
(* Bounds of the model *)

MaxFrames == 4        \* addFrame calls in one run
MaxMotion == 2        \* largest motion of an estimate: a translation or quarter turns
MaxPoints == 1        \* largest number of template points / estimator weights

----------------------------------------------------------------------------
(* Poses: Matrix44 rigid transforms, restricted to rotations about one axis *)
(* by multiples of a quarter turn and integer translations in the plane.    *)
(* [rot, tx, ty] stands for the homogeneous matrix [R(rot) t; 0 1].         *)

Identity == [rot |-> 0, tx |-> 0, ty |-> 0]

RotX(k, x, y) == CASE k = 0 -> x  [] k = 1 -> -y [] k = 2 -> -x [] k = 3 -> y
RotY(k, x, y) == CASE k = 0 -> y  [] k = 1 -> x  [] k = 2 -> -y [] k = 3 -> -x

\* A * B
Mul(A, B) ==
  [rot |-> (A.rot + B.rot) % 4,
   tx  |-> RotX(A.rot, B.tx, B.ty) + A.tx,
   ty  |-> RotY(A.rot, B.tx, B.ty) + A.ty]

\* A.inverse()
Inverse(A) ==
  LET k == (4 - A.rot) % 4
  IN [rot |-> k, tx |-> -RotX(k, A.tx, A.ty), ty |-> -RotY(k, A.tx, A.ty)]

\* pose.block<3,1>(0,3).squaredNorm()
TranslationSquaredNorm(pose) == pose.tx * pose.tx + pose.ty * pose.ty

\* math::RotationMatrixToEulerAngles(pose).squaredNorm(), in quarter turns:
\* the angle about the axis lies in (-2, 2]
EulerAnglesSquaredNorm(pose) ==
  CASE pose.rot = 0 -> 0 [] pose.rot = 1 -> 1 [] pose.rot = 2 -> 4 [] pose.rot = 3 -> 1

sq(x) == x * x

PoseSet ==
  {p \in [rot : 0..3, tx : 0..MaxMotion, ty : {0}] :
     p.rot + p.tx <= MaxMotion /\ (p.rot = 0 \/ p.tx = 0)}
GuessSet == {Identity, [rot |-> 1, tx |-> 1, ty |-> 0]}

----------------------------------------------------------------------------
(* Enumerations *)

kFirstFrame == "kFirstFrame"
kNoKeyFraming == "kNoKeyFraming"
kLargeTranslation == "kLargeTranslation"
kLargeRotation == "kLargeRotation"
kSmallFracOfGoodPoints == "kSmallFracOfGoodPoints"
kEstimationFailed == "kEstimationFailed"

KeyFramingReason == {kFirstFrame, kNoKeyFraming, kLargeTranslation, kLargeRotation,
                     kSmallFracOfGoodPoints, kEstimationFailed}

kSolverError == "kSolverError"
kConverged == "kConverged"

\* UniquePointer<PointCloud>: null, or a cloud of points
nullptr == [null |-> TRUE, points |-> <<>>]
NoResult == [returned |-> FALSE]
\* what THROW_ERROR_IF raises instead of a return value
Error(what) == [returned |-> FALSE, what |-> what]
InvalidInput == Error("nullptr image/disparity")
NoReferenceFrame == Error("no reference frame has been set")
\* a UniquePointer that owns no frame
NullFrame == 0
\* cv::Mat arguments: empty() or not
Mats == [empty : BOOLEAN]
NoCall == [made |-> FALSE]
NoArgs == [given |-> FALSE]
NoImage == [seq |-> 0, npts |-> 0]
\* a value the code never assigns: what the type's default constructor left there
DefaultConstructed == [assigned |-> FALSE]
\* Matrix66::Identity of Result::covariance
IdentityCovariance == [identity |-> TRUE]

----------------------------------------------------------------------------
(* VisualOdometryFrame (bpvo/vo_frame.h): the lifecycle contract of a frame *)

EmptyFrame == [has_data |-> FALSE, has_template |-> FALSE, image |-> NoImage]

setData(f, I) == [has_data |-> TRUE, has_template |-> FALSE, image |-> I]
setTemplate(f) == [f EXCEPT !.has_template = TRUE]
clear(f) == EmptyFrame
hasTemplate(f) == f.has_template
empty(f) == ~f.has_data
\* getTemplateDataAtLevel(level)->numPoints()
numPoints(f) == f.image.npts
\* getTemplateDataAtLevel(level)->points(): the points the template tracks at
\* that level; `stale` is what the storage of a frame without template holds
points(f, level, stale) ==
  IF hasTemplate(f)
    THEN [i \in 1..numPoints(f) |-> [image |-> f.image.seq, level |-> level, index |-> i]]
    ELSE [i \in 1..stale |-> [image |-> NoImage.seq, level |-> level, index |-> i]]

----------------------------------------------------------------------------
(* AlgorithmParameters and the constructor *)

RECURSIVE Pow2(_)
Pow2(n) == IF n = 0 THEN 1 ELSE 2 * Pow2(n - 1)

\* std::round(std::log2(n / (double) d)) for n >= d > 0: the k with
\* 2^(k - 1/2) <= n/d < 2^(k + 1/2), compared on the squares
RoundLog2(n, d) ==
  CHOOSE k \in 0..16 :
    /\ Pow2(2 * k) * d * d <= 2 * n * n
    /\ 2 * n * n < Pow2(2 * k + 2) * d * d

Min(a, b) == IF a < b THEN a ELSE b

\* Impl::Impl: the parameters the instance keeps
Impl(s, p) ==
  IF p.numPyramidLevels <= 0
    THEN [p EXCEPT !.numPyramidLevels =
            1 + RoundLog2(Min(s.rows, s.cols), p.minImageDimensionForPyramid)]
    ELSE p

\* the parameters and image sizes instances are constructed with
ImageSizes == {[rows |-> 96, cols |-> 128]}
UserParams ==
  [numPyramidLevels : {-1, 2},
   minImageDimensionForPyramid : {40},
   maxTestLevel : {0},
   maxSolutionError : {2},
   minTranslationMagToKeyFrame : {1},
   minRotationMagToKeyFrame : {1},
   maxFractionOfGoodPointsToKeyFrame : {2}]

\* VisualOdometryFrame::numLevels() of a frame built with the instance's parameters
numLevels(f, P) == P.numPyramidLevels

----------------------------------------------------------------------------
(* What the pose estimator can return *)

\* the statistics of one run: all levels fine, or the error of the test level
\* too large, or a solver error at the last level
StatsSet(P) ==
  LET fine == [i \in 0..(P.numPyramidLevels - 1) |->
                 [finalError |-> 2, numPixels |-> 1, status |-> kConverged]]
  IN {fine,
      [fine EXCEPT ![P.maxTestLevel].finalError = 3],
      [fine EXCEPT ![P.numPyramidLevels - 1].status = kSolverError]}

\* getFractionOfGoodPoints, in quarters
GoodFractions == {1, 2}

EstimateSet(P) ==
  [stats : StatsSet(P), T_est : PoseSet, fracGood : GoodFractions,
   numWeights : 0..MaxPoints]

----------------------------------------------------------------------------
(* Result validator and keyframing decision *)

\* finalError / numPixels > maxSolutionError, in floating point: a positive
\* error over zero pixels is +inf, zero over zero is NaN and compares false
ErrorExceeded(st, thr) ==
  IF st.numPixels > 0 THEN st.finalError > thr * st.numPixels
  ELSE st.finalError > 0

\* faulty variant: the statuses are scanned down to level 0
checkResult_scansAllLevels(stats, P) ==
  LET n == Cardinality(DOMAIN stats)
      finStats == stats[P.maxTestLevel]
  IN IF ErrorExceeded(finStats, P.maxSolutionError) THEN FALSE
     ELSE ~\E i \in 0..(n - 1) : stats[i].status = kSolverError

\* Impl::checkResult(stats): lines 127-148
checkResult(stats, P) ==
  LET n == Cardinality(DOMAIN stats)
      finStats == stats[P.maxTestLevel]
  IN IF ErrorExceeded(finStats, P.maxSolutionError) THEN FALSE
     ELSE ~\E i \in P.maxTestLevel..(n - 1) : stats[i].status = kSolverError

\* faulty variant: the rotation is tested before the translation
shouldKeyFrame_rotationFirst(pose, frac_good, P) ==
  IF EulerAnglesSquaredNorm(pose) > sq(P.minRotationMagToKeyFrame)
    THEN kLargeRotation
  ELSE IF TranslationSquaredNorm(pose) > sq(P.minTranslationMagToKeyFrame)
    THEN kLargeTranslation
  ELSE IF frac_good < P.maxFractionOfGoodPointsToKeyFrame
    THEN kSmallFracOfGoodPoints
  ELSE kNoKeyFraming

shouldKeyFrame(pose, frac_good, P) ==
  IF TranslationSquaredNorm(pose) > sq(P.minTranslationMagToKeyFrame)
    THEN kLargeTranslation
  ELSE IF EulerAnglesSquaredNorm(pose) > sq(P.minRotationMagToKeyFrame)
    THEN kLargeRotation
  ELSE IF frac_good < P.maxFractionOfGoodPointsToKeyFrame
    THEN kSmallFracOfGoodPoints
  ELSE kNoKeyFraming

----------------------------------------------------------------------------
(* The instance during a call.  An impl record holds the fields of          *)
(* VisualOdometry::Impl, the state of the pose estimator it owns (vo_pose), *)
(* the calls made so far to estimatePose (est) and shouldKeyFrame (skf),    *)
(* and which results of which estimator run the call has read (reads).      *)

\* the code reads `field` of the latest estimator run
read(impl, field) == [impl EXCEPT !.reads = @ \cup {<<Len(impl.est), field>>}]

\* faulty variant: the current frame is assigned to the reference, not swapped
swap_ref_cur_assigns(impl) ==
  [impl EXCEPT !.ref_frame = impl.cur_frame]

\* std::swap on two of the slot pointers
swap_ref_cur(impl) ==
  [impl EXCEPT !.ref_frame = impl.cur_frame, !.cur_frame = impl.ref_frame]

\* faulty variant: the candidate is swapped with the reference instead of the current frame
swap_prev_cur_wrongPair(impl) ==
  [impl EXCEPT !.prev_frame = impl.ref_frame, !.ref_frame = impl.prev_frame]

swap_prev_cur(impl) ==
  [impl EXCEPT !.prev_frame = impl.cur_frame, !.cur_frame = impl.prev_frame]

\* faulty variant: the reference is swapped with the current frame instead of the candidate
swap_prev_ref_wrongPair(impl) ==
  [impl EXCEPT !.cur_frame = impl.ref_frame, !.ref_frame = impl.cur_frame]

swap_prev_ref(impl) ==
  [impl EXCEPT !.prev_frame = impl.ref_frame, !.ref_frame = impl.prev_frame]

\* _vo_pose->estimatePose(_ref_frame.get(), _cur_frame.get(), T_guess, T_est):
\* the estimator returns e and keeps the weights and point scores of this run
estimatePose(impl, T_guess, e) ==
  [impl EXCEPT
     !.vo_pose = [fracGood |-> e.fracGood, numWeights |-> e.numWeights],
     !.est = Append(@, [ref |-> impl.ref_frame, cur |-> impl.cur_frame,
                        refFrame |-> impl.frames[impl.ref_frame],
                        curFrame |-> impl.frames[impl.cur_frame],
                        seed |-> T_guess, out |-> e])]

\* a call of shouldKeyFrame(T_est), recorded: it reads the pose, and asks the
\* estimator for the fraction of good points (line 266) unless it returned before
calledShouldKeyFrame(impl, T_est, reason) ==
  LET a == read([impl EXCEPT !.skf = Append(@, [run |-> Len(impl.est), pose |-> T_est,
                                                reason |-> reason])], "T_est")
  IN IF reason \in {kLargeTranslation, kLargeRotation} THEN a ELSE read(a, "fracGood")

FirstFrameResult(n_levels) ==
  [returned |-> TRUE,
   success |-> FALSE,
   displacement |-> Identity,
   covariance |-> IdentityCovariance,
   optimizerStatistics |-> [i \in 0..(n_levels - 1) |-> DefaultConstructed],
   isKeyFrame |-> TRUE,
   keyFramingReason |-> kFirstFrame,
   pointCloud |-> nullptr]

\* Result ret;
NewResult ==
  [returned |-> TRUE,
   success |-> FALSE,
   displacement |-> DefaultConstructed,
   covariance |-> DefaultConstructed,
   optimizerStatistics |-> <<>>,
   isKeyFrame |-> FALSE,
   keyFramingReason |-> kNoKeyFraming,
   pointCloud |-> nullptr]

\* Impl::pointsAtLevel(level): lines 289-296.  The value names the frame and
\* the level whose template data is read
pointsAtLevel(impl, level, stale, P) ==
  IF impl.ref_frame = NullFrame THEN NoReferenceFrame
  ELSE LET l == IF level < 0 THEN P.maxTestLevel ELSE level
       IN [returned |-> TRUE, frame |-> impl.ref_frame, level |-> l,
           points |-> points(impl.frames[impl.ref_frame], l, stale)]

\* Impl::numPointsAtLevel(level): lines 276-287
numPointsAtLevel(impl, level, stale, P) ==
  LET l == IF level < 0 THEN P.maxTestLevel ELSE level
  IN IF impl.ref_frame # NullFrame
       THEN [returned |-> TRUE, frame |-> impl.ref_frame, level |-> l,
             value |-> Len(points(impl.frames[impl.ref_frame], l, stale))]
       ELSE [returned |-> TRUE, frame |-> NullFrame, level |-> l, value |-> 0]

\* faulty variant: the cloud is taken from the previous frame, the incoming reference
getPointCloudFromRefFrame_incoming(impl, P) ==
  LET q == pointsAtLevel([impl EXCEPT !.ref_frame = impl.prev_frame],
                         P.maxTestLevel, 0, P)
      n == Len(q.points)
  IN IF ~q.returned THEN q
     ELSE IF n # impl.vo_pose.numWeights THEN nullptr
     ELSE [null |-> FALSE, points |-> q.points]

\* Impl::getPointCloudFromRefFrame: lines 310-332.  The value is the cloud, or
\* nullptr, or the error pointsAtLevel raised
getPointCloudFromRefFrame(impl, P) ==
  LET q == pointsAtLevel(impl, P.maxTestLevel, 0, P)
      n == Len(q.points)
  IN IF ~q.returned THEN q
     ELSE IF n # impl.vo_pose.numWeights THEN nullptr
     ELSE [null |-> FALSE, points |-> q.points]

\* faulty variant: the first frame is never promoted to a template
Bootstrap_noTemplate(impl, P) ==
  LET a == swap_ref_cur(impl)
      b == [a EXCEPT !.trajectory = Append(@, a.T_kf)]
  IN [impl |-> b,
      T_est |-> DefaultConstructed,
      ret |-> FirstFrameResult(numLevels(b.frames[b.ref_frame], P))]

\* addFrame, the first frame: lines 155-161
Bootstrap(impl, P) ==
  LET a == swap_ref_cur(impl)
      b == [a EXCEPT !.frames[a.ref_frame] = setTemplate(@),
                     !.trajectory = Append(@, a.T_kf)]
  IN [impl |-> b,
      T_est |-> DefaultConstructed,
      ret |-> FirstFrameResult(numLevels(b.frames[b.ref_frame], P))]

\* faulty variant: a failed estimation does not count as a keyframe
IsKeyFrameReason_notOnFailure(reason) == reason \notin {kNoKeyFraming, kEstimationFailed}

\* isKeyFrame as computed from the reason: line 180
IsKeyFrameReason(reason) == kNoKeyFraming # reason

\* addFrame, the primary estimate and its classification: lines 163-180
PrimaryEstimate(impl, guess, e, P) ==
  LET T_guess == Mul(impl.T_kf, guess)
      a == read(estimatePose(impl, T_guess, e), "stats")
      success == checkResult(e.stats, P)
      reason == IF ~success THEN kEstimationFailed
                ELSE shouldKeyFrame(e.T_est, a.vo_pose.fracGood, P)
      b == IF success THEN calledShouldKeyFrame(a, e.T_est, reason) ELSE a
  IN [impl |-> b,
      T_est |-> e.T_est,
      ret |-> [NewResult EXCEPT !.optimizerStatistics = e.stats,
                                !.success = success,
                                !.keyFramingReason = reason,
                                !.isKeyFrame = IsKeyFrameReason(reason)]]

\* faulty variant: the submitted frame is not kept as candidate
NoKeyFrame_noCandidate(c) ==
  [impl |-> [c.impl EXCEPT !.T_kf = c.T_est],
   T_est |-> c.T_est,
   ret |-> [c.ret EXCEPT !.displacement = Mul(c.T_est, Inverse(c.impl.T_kf))]]

\* faulty variant: the accumulated pose is removed on the wrong side
NoKeyFrame_leftInverse(c) ==
  LET a == swap_prev_cur(c.impl)
  IN [impl |-> [a EXCEPT !.T_kf = c.T_est],
      T_est |-> c.T_est,
      ret |-> [c.ret EXCEPT !.displacement = Mul(Inverse(c.impl.T_kf), c.T_est)]]

\* addFrame, no keyframe: lines 182-189
NoKeyFrame(c) ==
  LET a == swap_prev_cur(c.impl)
  IN [impl |-> [a EXCEPT !.T_kf = c.T_est],
      T_est |-> c.T_est,
      ret |-> [c.ret EXCEPT !.displacement = Mul(c.T_est, Inverse(c.impl.T_kf))]]

\* faulty variant: the accumulated pose is not reset
ResetAndExtract_noReset(c, P) ==
  LET cloud == getPointCloudFromRefFrame(c.impl, P)
  IN IF "returned" \in DOMAIN cloud
       THEN [c EXCEPT !.ret = cloud]
       ELSE [c EXCEPT !.impl = read(c.impl, "numWeights"), !.ret.pointCloud = cloud]

\* addFrame, a keyframe is declared: lines 192-198.  An error raised by the
\* extraction leaves addFrame at this point
ResetAndExtract(c, P) ==
  LET a == [c.impl EXCEPT !.T_kf = Identity]
      cloud == getPointCloudFromRefFrame(a, P)
  IN IF "returned" \in DOMAIN cloud
       THEN [c EXCEPT !.impl = a, !.ret = cloud]
       ELSE [c EXCEPT !.impl = read(a, "numWeights"), !.ret.pointCloud = cloud]

\* faulty variant: the result of a keyframe without a previous frame keeps its success flag
StarvedKeyFrame_keepsSuccess(c) ==
  LET a == swap_ref_cur(c.impl)
      b == [a EXCEPT !.frames[a.ref_frame] = setTemplate(@)]
  IN [c EXCEPT !.impl = b]

\* addFrame, keyframe without a previous frame: lines 201-207
StarvedKeyFrame(c) ==
  LET a == swap_ref_cur(c.impl)
      b == [a EXCEPT !.frames[a.ref_frame] = setTemplate(@)]
  IN [c EXCEPT !.impl = b, !.ret.success = FALSE]

\* faulty variant: isKeyFrame is computed again from the second decision
BackupKeyFrame_recomputesIsKeyFrame(c, guess, e, P) ==
  LET a == swap_prev_ref(c.impl)
      b == [a EXCEPT !.frames[a.prev_frame] = clear(@)]
      d == [b EXCEPT !.frames[b.ref_frame] = setTemplate(@)]
      f == read(read(estimatePose(d, guess, e), "stats"), "T_est")
      g == [f EXCEPT !.T_kf = e.T_est]
      success == checkResult(e.stats, P)
      reason == IF ~success THEN kEstimationFailed
                ELSE shouldKeyFrame(e.T_est, f.vo_pose.fracGood, P)
      h == IF success THEN calledShouldKeyFrame(g, e.T_est, reason) ELSE g
  IN [impl |-> h,
      T_est |-> e.T_est,
      ret |-> [c.ret EXCEPT !.optimizerStatistics = e.stats,
                            !.displacement = e.T_est,
                            !.keyFramingReason = reason,
                            !.isKeyFrame = IsKeyFrameReason(reason),
                            !.success = IF reason # kNoKeyFraming THEN FALSE ELSE success]]

\* faulty variant: the promoted frame gets its template after the re-estimation
BackupKeyFrame_templatesLate(c, guess, e, P) ==
  LET a == swap_prev_ref(c.impl)
      b == [a EXCEPT !.frames[a.prev_frame] = clear(@)]
      d == read(read(estimatePose(b, guess, e), "stats"), "T_est")
      f == [d EXCEPT !.frames[d.ref_frame] = setTemplate(@)]
      g == [f EXCEPT !.T_kf = e.T_est]
      success == checkResult(e.stats, P)
      reason == IF ~success THEN kEstimationFailed
                ELSE shouldKeyFrame(e.T_est, f.vo_pose.fracGood, P)
      h == IF success THEN calledShouldKeyFrame(g, e.T_est, reason) ELSE g
  IN [impl |-> h,
      T_est |-> e.T_est,
      ret |-> [c.ret EXCEPT !.optimizerStatistics = e.stats,
                            !.displacement = e.T_est,
                            !.keyFramingReason = reason,
                            !.success = IF reason # kNoKeyFraming THEN FALSE ELSE success]]

\* faulty variant: a rejected re-estimation is not taken over as pose
BackupKeyFrame_dropsRejectedPose(c, guess, e, P) ==
  LET a == swap_prev_ref(c.impl)
      b == [a EXCEPT !.frames[a.prev_frame] = clear(@)]
      d == [b EXCEPT !.frames[b.ref_frame] = setTemplate(@)]
      f == read(read(estimatePose(d, guess, e), "stats"), "T_est")
      success == checkResult(e.stats, P)
      g == IF success THEN [f EXCEPT !.T_kf = e.T_est] ELSE f
      reason == IF ~success THEN kEstimationFailed
                ELSE shouldKeyFrame(e.T_est, f.vo_pose.fracGood, P)
      h == IF success THEN calledShouldKeyFrame(g, e.T_est, reason) ELSE g
  IN [impl |-> h,
      T_est |-> e.T_est,
      ret |-> [c.ret EXCEPT !.optimizerStatistics = e.stats,
                            !.displacement = IF success THEN e.T_est ELSE Identity,
                            !.keyFramingReason = reason,
                            !.success = IF reason # kNoKeyFraming THEN FALSE ELSE success]]

\* addFrame, keyframe on the previous frame and re-estimation: lines 209-237
BackupKeyFrame(c, guess, e, P) ==
  LET a == swap_prev_ref(c.impl)
      b == [a EXCEPT !.frames[a.prev_frame] = clear(@)]
      d == [b EXCEPT !.frames[b.ref_frame] = setTemplate(@)]
      T_guess == guess
      f == read(read(estimatePose(d, T_guess, e), "stats"), "T_est")
      g == [f EXCEPT !.T_kf = e.T_est]
      success == checkResult(e.stats, P)
      reason == IF ~success THEN kEstimationFailed
                ELSE shouldKeyFrame(e.T_est, f.vo_pose.fracGood, P)
      h == IF success THEN calledShouldKeyFrame(g, e.T_est, reason) ELSE g
  IN [impl |-> h,
      T_est |-> e.T_est,
      ret |-> [c.ret EXCEPT !.optimizerStatistics = e.stats,
                            !.displacement = e.T_est,
                            !.keyFramingReason = reason,
                            !.success = IF reason # kNoKeyFraming THEN FALSE ELSE success]]

\* faulty variant: the re-estimation is tried whether or not there is a previous frame
KeyFrame_alwaysRetry(c, guess, e, P) ==
  BackupKeyFrame(ResetAndExtract(c, P), guess, e, P)

\* faulty variant: without a point cloud the keyframe is given up
KeyFrame_needsPointCloud(c, guess, e, P) ==
  LET k == ResetAndExtract(c, P)
  IN IF ~k.ret.returned \/ k.ret.pointCloud.null THEN k
     ELSE IF empty(k.impl.frames[k.impl.prev_frame])
       THEN StarvedKeyFrame(k)
       ELSE BackupKeyFrame(k, guess, e, P)

\* addFrame, the keyframe branch: lines 190-238
KeyFrame(c, guess, e, P) ==
  LET k == ResetAndExtract(c, P)
  IN IF ~k.ret.returned THEN k
     ELSE IF empty(k.impl.frames[k.impl.prev_frame])
       THEN StarvedKeyFrame(k)
       ELSE BackupKeyFrame(k, guess, e, P)

\* faulty variant: every call after the first appends its displacement
addFrame_pushesPose(impl, I, guess, e1, e2, P) ==
  LET a == [impl EXCEPT !.frames[impl.cur_frame] = setData(@, I)]
  IN IF ~hasTemplate(a.frames[a.ref_frame])
       THEN Bootstrap(a, P)
       ELSE LET c == PrimaryEstimate(a, guess, e1, P)
                r == IF ~c.ret.isKeyFrame THEN NoKeyFrame(c) ELSE KeyFrame(c, guess, e2, P)
            IN [r EXCEPT !.impl.trajectory = Append(@, r.ret.displacement)]

\* VisualOdometry::Impl::addFrame(I, D, guess): lines 150-247.  e1 and e2 are
\* what the estimator returns when it is called the first and the second time
addFrame(impl, I, guess, e1, e2, P) ==
  LET a == [impl EXCEPT !.frames[impl.cur_frame] = setData(@, I)]
  IN IF ~hasTemplate(a.frames[a.ref_frame])
       THEN Bootstrap(a, P)
       ELSE LET c == PrimaryEstimate(a, guess, e1, P)
            IN IF ~c.ret.isKeyFrame
                 THEN NoKeyFrame(c)
                 ELSE KeyFrame(c, guess, e2, P)

----------------------------------------------------------------------------
(* The state machine *)

\* the instance as the variables hold it between calls.  The estimator's
\* weights and point scores are not kept between calls: every call that
\* reads them has run estimatePose before.
ThisImpl ==
  [frames |-> frames, ref_frame |-> ref_frame, cur_frame |-> cur_frame,
   prev_frame |-> prev_frame, T_kf |-> T_kf, trajectory |-> trajectory,
   vo_pose |-> [fracGood |-> 0, numWeights |-> 0],
   est |-> <<>>, skf |-> <<>>, reads |-> {}]

\* VisualOdometry::VisualOdometry / Impl::Impl
Constructed(P) ==
  /\ params \in P
  /\ frames = [i \in 1..3 |-> EmptyFrame]
  /\ ref_frame = 1
  /\ cur_frame = 2
  /\ prev_frame = 3
  /\ T_kf = Identity
  /\ trajectory = <<>>
  /\ nframes = 0
  /\ ret = NoResult
  /\ call = NoCall
  /\ last = NoResult

Init ==
  /\ Constructed({Impl(s, p) : s \in ImageSizes, p \in UserParams})
  /\ fnArgs = NoArgs
  /\ fnOut = NoArgs

\* What the estimator returns in a call of addFrame: o[1] for its first run,
\* o[2] for its second.  A result the call never reads is left at NoEstimate's
\* value; the results are asked for in the order the code reads them.
NoEstimate(P) ==
  [stats |-> [i \in 0..(P.numPyramidLevels - 1) |->
                [finalError |-> 0, numPixels |-> 1, status |-> kConverged]],
   T_est |-> Identity, fracGood |-> 0, numWeights |-> 0]

Questions ==
  <<(<<1, "stats">>), (<<1, "T_est">>), (<<1, "fracGood">>), (<<1, "numWeights">>),
    (<<2, "stats">>), (<<2, "T_est">>), (<<2, "fracGood">>), (<<2, "numWeights">>)>>

Range(field, P) ==
  CASE field = "stats" -> StatsSet(P)
    [] field = "T_est" -> PoseSet
    [] field = "fracGood" -> GoodFractions
    [] field = "numWeights" -> 0..MaxPoints

\* the outcomes of addFrame(I, guess) over all the answers the estimator can
\* give to questions i, i+1, ...; r is the outcome with the answers o
RECURSIVE Answers(_, _, _, _, _, _, _)
Answers(impl, I, guess, o, r, i, P) ==
  IF i > Len(Questions) THEN {r}
  ELSE LET q == Questions[i]
       IN IF q \notin r.impl.reads
            THEN Answers(impl, I, guess, o, r, i + 1, P)
            ELSE UNION {Answers(impl, I, guess, x[1], x[2], i + 1, P) :
                          x \in {<<oo, addFrame(impl, I, guess, oo[1], oo[2], P)>> :
                                   oo \in {[o EXCEPT ![q[1]][q[2]] = v] :
                                             v \in Range(q[2], P)}}}

Outcomes(impl, I, guess, P) ==
  LET o == <<NoEstimate(P), NoEstimate(P)>>
  IN Answers(impl, I, guess, o, addFrame(impl, I, guess, o[1], o[2], P), 1, P)

\* faulty variant: the arguments are tested after the frame was processed
VisualOdometry_addFrame_lateTest(impl, image, disparity, I, guess, P) ==
  IF image.empty \/ disparity.empty
    THEN {[r EXCEPT !.ret = InvalidInput] : r \in Outcomes(impl, I, guess, P)}
    ELSE Outcomes(impl, I, guess, P)

\* VisualOdometry::addFrame(image, disparity, guess): lines 66-73.  I is what a
\* frame keeps of the image and the disparity; the value is the set of outcomes
VisualOdometry_addFrame(impl, image, disparity, I, guess, P) ==
  IF image.empty \/ disparity.empty
    THEN {[impl |-> impl, T_est |-> DefaultConstructed, ret |-> InvalidInput]}
    ELSE Outcomes(impl, I, guess, P)

\* one call of addFrame
AddFrame ==
  /\ ret = NoResult
  /\ fnOut = NoArgs
  /\ nframes < MaxFrames
  /\ \E image, disparity \in Mats, guess \in GuessSet :
     \E npts \in (IF image.empty \/ disparity.empty THEN {0} ELSE 1..MaxPoints) :
       LET I == [seq |-> nframes + 1, npts |-> npts]
       IN \E r \in VisualOdometry_addFrame(ThisImpl, image, disparity, I, guess, params) :
               /\ frames' = r.impl.frames
               /\ ref_frame' = r.impl.ref_frame
               /\ cur_frame' = r.impl.cur_frame
               /\ prev_frame' = r.impl.prev_frame
               /\ T_kf' = r.impl.T_kf
               /\ trajectory' = r.impl.trajectory
               /\ nframes' = IF r.ret.returned THEN nframes + 1 ELSE nframes
               /\ ret' = r.ret
               /\ call' = [made |-> TRUE, entry |-> ThisImpl, last |-> last,
                           imageMat |-> image, disparityMat |-> disparity,
                           image |-> I, guess |-> guess, est |-> r.impl.est,
                           skf |-> r.impl.skf, reads |-> r.impl.reads]
               /\ last' = IF r.ret.returned
                            THEN [returned |-> TRUE, image |-> I,
                                  isKeyFrame |-> r.ret.isKeyFrame]
                            ELSE last
  /\ UNCHANGED <<params, fnArgs, fnOut>>

\* the caller is done with the Result of the last call and turns to the next frame
NextFrame ==
  /\ ret # NoResult \/ fnOut # NoArgs
  /\ ret' = NoResult
  /\ call' = NoCall
  /\ fnArgs' = NoArgs
  /\ fnOut' = NoArgs
  /\ UNCHANGED <<params, frames, ref_frame, cur_frame, prev_frame, T_kf, trajectory,
                 nframes, last>>

\* the levels a caller asks for: the default, and the levels of the pyramid
QueryLevels(P) == {-1} \cup 0..(P.numPyramidLevels - 1)

\* VisualOdometry::pointsAtLevel(level): lines 85-88, a const query
PointsAtLevel ==
  /\ ret = NoResult
  /\ fnOut = NoArgs
  /\ \E level \in QueryLevels(params), stale \in 0..MaxPoints :
       /\ fnArgs' = [given |-> TRUE, fn |-> "pointsAtLevel", level |-> level]
       /\ fnOut' = [given |-> TRUE, value |-> pointsAtLevel(ThisImpl, level, stale, params)]
  /\ UNCHANGED <<params, frames, ref_frame, cur_frame, prev_frame, T_kf, trajectory,
                 nframes, ret, call, last>>

\* VisualOdometry::numPointsAtLevel(level): lines 75-78, a const query
NumPointsAtLevel ==
  /\ ret = NoResult
  /\ fnOut = NoArgs
  /\ \E level \in QueryLevels(params), stale \in 0..MaxPoints :
       /\ fnArgs' = [given |-> TRUE, fn |-> "numPointsAtLevel", level |-> level]
       /\ fnOut' = [given |-> TRUE,
                    value |-> numPointsAtLevel(ThisImpl, level, stale, params)]
  /\ UNCHANGED <<params, frames, ref_frame, cur_frame, prev_frame, T_kf, trajectory,
                 nframes, ret, call, last>>

Next == AddFrame \/ NextFrame \/ PointsAtLevel \/ NumPointsAtLevel

Spec == Init /\ [][Next]_vars

----------------------------------------------------------------------------
(* shouldKeyFrame on its own: the arguments are drawn in the initial state *)

KeyFrameParams ==
  [numPyramidLevels : {2},
   minImageDimensionForPyramid : {40},
   maxTestLevel : {0},
   maxSolutionError : {2},
   minTranslationMagToKeyFrame : 0..MaxMotion,
   minRotationMagToKeyFrame : 0..MaxMotion,
   maxFractionOfGoodPointsToKeyFrame : {0, 2, 4}]

KeyFramePoses == [rot : 0..3, tx : (-MaxMotion)..MaxMotion, ty : (-1)..1]

InitShouldKeyFrame ==
  /\ Constructed(KeyFrameParams)
  /\ fnArgs \in [given : {TRUE}, pose : KeyFramePoses, frac_good : 0..4]
  /\ fnOut = NoArgs

EvalShouldKeyFrame ==
  /\ fnArgs.given
  /\ ~fnOut.given
  /\ fnOut' = [given |-> TRUE,
               value |-> shouldKeyFrame(fnArgs.pose, fnArgs.frac_good, params)]
  /\ UNCHANGED <<params, frames, ref_frame, cur_frame, prev_frame, T_kf, trajectory,
                 nframes, ret, call, last, fnArgs>>

SpecShouldKeyFrame == InitShouldKeyFrame /\ [][EvalShouldKeyFrame]_vars

----------------------------------------------------------------------------
(* checkResult on its own: the statistics and the test level are drawn in   *)
(* the initial state, with a second content for the levels below the test   *)
(* level                                                                    *)

CheckResultParams ==
  [numPyramidLevels : {3},
   minImageDimensionForPyramid : {40},
   maxTestLevel : 0..2,
   maxSolutionError : {2},
   minTranslationMagToKeyFrame : {1},
   minRotationMagToKeyFrame : {1},
   maxFractionOfGoodPointsToKeyFrame : {2}]

CheckResultLevelStats ==
  [finalError : {0, 2, 3}, numPixels : {0, 1}, status : {kConverged, kSolverError}]

\* stats with the levels below the test level set to st
WithLowerLevels(stats, st, P) ==
  [i \in DOMAIN stats |-> IF i < P.maxTestLevel THEN st ELSE stats[i]]

InitCheckResult ==
  /\ Constructed(CheckResultParams)
  /\ fnArgs \in [given : {TRUE},
                  stats : [0..(params.numPyramidLevels - 1) -> CheckResultLevelStats],
                  lower : CheckResultLevelStats]
  /\ fnOut = NoArgs

EvalCheckResult ==
  /\ fnArgs.given
  /\ ~fnOut.given
  /\ fnOut' = [given |-> TRUE,
               value |-> checkResult(fnArgs.stats, params),
               valueLower |-> checkResult(WithLowerLevels(fnArgs.stats, fnArgs.lower, params),
                                          params)]
  /\ UNCHANGED <<params, frames, ref_frame, cur_frame, prev_frame, T_kf, trajectory,
                 nframes, ret, call, last, fnArgs>>

SpecCheckResult == InitCheckResult /\ [][EvalCheckResult]_vars

----------------------------------------------------------------------------
(* Vocabulary of the properties.  They speak about the state in which a     *)
(* call of addFrame has just returned: ret is its Result, call.entry the    *)
(* instance at entry, call.est and call.skf the calls it made.              *)

Returned == ret.returned
EntryRef == call.entry.frames[call.entry.ref_frame]
EntryCur == call.entry.frames[call.entry.cur_frame]
EntryPrev == call.entry.frames[call.entry.prev_frame]
Ref == frames[ref_frame]
Cur == frames[cur_frame]
Prev == frames[prev_frame]

BootstrapCall == Returned /\ ~hasTemplate(EntryRef)
TrackingCall == Returned /\ hasTemplate(EntryRef) /\ Len(call.est) >= 1
PrimaryAccepted == TrackingCall /\ checkResult(call.est[1].out.stats, params)
PrimaryRejected == TrackingCall /\ ~checkResult(call.est[1].out.stats, params)
\* shouldKeyFrame was called on the estimate of run k
DecidedOn(k) == \E i \in 1..Len(call.skf) : call.skf[i].run = k
DecisionOn(k) == call.skf[CHOOSE i \in 1..Len(call.skf) : call.skf[i].run = k].reason
\* the reason the primary estimate was classified with
PrimaryReason ==
  IF PrimaryRejected THEN kEstimationFailed
  ELSE IF DecidedOn(1) THEN DecisionOn(1) ELSE kFirstFrame
StarvedCall == TrackingCall /\ PrimaryReason # kNoKeyFraming /\ empty(EntryPrev)
BackupCall == TrackingCall /\ PrimaryReason # kNoKeyFraming /\ ~empty(EntryPrev)

----------------------------------------------------------------------------
(* C1 *)

----------------------------------------------------------------------------
(* C2 *)

----------------------------------------------------------------------------
(* C3 *)

\* C3 as stated: in every state between calls, from construction on, exactly
\* one of the three slots is templated, and it is the reference slot.
C3_AsStated ==
  /\ hasTemplate(Ref)
  /\ ~hasTemplate(Cur)
  /\ ~hasTemplate(Prev)

\* C3 amended: before the first call no slot is templated; after it the
\* reference slot is templated and the previous slot is raw or empty; the
\* current slot is raw or empty too, except after a keyframe call that found
\* the previous slot empty: then it holds the outgoing reference, still
\* templated, and the previous slot is empty.
C3_ReferenceTemplated ==
  /\ nframes = 0 => ~hasTemplate(Ref) /\ ~hasTemplate(Cur) /\ ~hasTemplate(Prev)
  /\ nframes > 0 => hasTemplate(Ref) /\ ~hasTemplate(Prev)
  /\ hasTemplate(Cur) =>
       /\ nframes > 1
       /\ empty(Prev)
       /\ T_kf = Identity
       /\ Cur.image.seq < Ref.image.seq
  /\ Returned /\ nframes > 0 => (hasTemplate(Cur) <=> StarvedCall)

C3_Witness ==
  /\ StarvedCall
  /\ hasTemplate(Ref)
  /\ hasTemplate(Cur)
  /\ Cur = EntryRef

----------------------------------------------------------------------------
(* C4 *)

\* C4: the first call on a fresh instance runs no pose estimation, swaps the
\* submitted frame into the reference slot and templates it, and returns
\* success=false, isKeyFrame=true, reason first-frame, identity displacement
\* and covariance, one statistics entry per pyramid level and no point cloud;
\* no later call returns reason first-frame.
C4_FirstFrame ==
  /\ Returned /\ nframes = 1 => BootstrapCall
  /\ BootstrapCall =>
       /\ nframes = 1
       /\ call.est = <<>>
       /\ call.skf = <<>>
       /\ ref_frame = call.entry.cur_frame
       /\ cur_frame = call.entry.ref_frame
       /\ hasTemplate(Ref)
       /\ Ref.image = call.image
       /\ ret.success = FALSE
       /\ ret.isKeyFrame = TRUE
       /\ ret.keyFramingReason = kFirstFrame
       /\ ret.displacement = Identity
       /\ ret.covariance = IdentityCovariance
       /\ Cardinality(DOMAIN ret.optimizerStatistics) = params.numPyramidLevels
       /\ ret.pointCloud.null
  /\ Returned /\ nframes > 1 => ret.keyFramingReason # kFirstFrame

C4_Witness ==
  /\ BootstrapCall
  /\ ret.keyFramingReason = kFirstFrame
  /\ hasTemplate(Ref)
  /\ Len(trajectory) = 1

----------------------------------------------------------------------------
(* C5 *)

\* C5: a call that reaches a keyframe trigger while the previous slot is empty
\* runs the estimator exactly once, returns success=false with the reason of
\* the primary estimate, and ends with the submitted frame as the templated
\* reference and T_kf = identity; and every call entered with a templated
\* reference, so also the call after it, runs its first estimation of the
\* submitted frame against the reference it found at entry.
C5_StarvedKeyFrame ==
  /\ StarvedCall =>
       /\ Len(call.est) = 1
       /\ ret.success = FALSE
       /\ ret.keyFramingReason = PrimaryReason
       /\ ret.isKeyFrame = TRUE
       /\ ref_frame = call.entry.cur_frame
       /\ hasTemplate(Ref)
       /\ Ref.image = call.image
       /\ T_kf = Identity
  /\ Returned /\ hasTemplate(EntryRef) =>
       /\ Len(call.est) >= 1
       /\ call.est[1].ref = call.entry.ref_frame
       /\ call.est[1].refFrame = EntryRef
       /\ call.est[1].curFrame.image = call.image

\* a starved keyframe call that follows a starved keyframe call: the outgoing
\* reference left in the current slot by the one before is what it found there
C5_Witness ==
  /\ StarvedCall
  /\ hasTemplate(EntryCur)
  /\ PrimaryReason = kSmallFracOfGoodPoints
  /\ call.est[1].refFrame.image.seq = nframes - 1
  /\ Ref.image.seq = nframes

----------------------------------------------------------------------------
(* C6 *)

\* C6 as stated: a keyframe call with a previous frame that returns
\* success=true returns a non-null point cloud whose length is the point count
\* of the outgoing reference, and leaves the reference slot templated.
C6_AsStated ==
  BackupCall /\ ret.success =>
    /\ ~ret.pointCloud.null
    /\ Len(ret.pointCloud.points) = numPoints(EntryRef)
    /\ hasTemplate(Ref)

\* C6 amended: a keyframe call with a previous frame that returns success=true
\* returns the point cloud extracted from the outgoing reference before the
\* slots are rotated: non-null, with as many points as that frame tracks, when
\* the weight count of the primary estimate equals that point count, and null
\* otherwise; it leaves the reference slot templated.
C6_PointCloudOfOutgoingReference ==
  BackupCall /\ ret.success =>
    /\ call.est[1].out.numWeights = numPoints(EntryRef) =>
         /\ ~ret.pointCloud.null
         /\ Len(ret.pointCloud.points) = numPoints(EntryRef)
         /\ \A i \in 1..Len(ret.pointCloud.points) :
              ret.pointCloud.points[i].image = EntryRef.image.seq
    /\ call.est[1].out.numWeights # numPoints(EntryRef) => ret.pointCloud.null
    /\ hasTemplate(Ref)
    /\ Ref.image = EntryPrev.image

C6_Witness ==
  /\ BackupCall
  /\ ret.success
  /\ ~ret.pointCloud.null
  /\ Len(ret.pointCloud.points) = numPoints(EntryRef)
  /\ Len(ret.pointCloud.points) > 0

----------------------------------------------------------------------------
(* C7 *)

\* C7: in a call that declares a keyframe T_kf is reset before any later pose
\* composition: the re-estimation is seeded with the caller's guess alone, its
\* displacement and the new T_kf are the second T_est, and without a
\* re-estimation T_kf is identity at return; the first estimation of every
\* call is seeded with (T_kf at entry) * guess.
C7_ResetBeforeComposition ==
  /\ TrackingCall /\ ret.isKeyFrame =>
       /\ Len(call.est) = 2 =>
            /\ call.est[2].seed = call.guess
            /\ ret.displacement = call.est[2].out.T_est
            /\ T_kf = call.est[2].out.T_est
       /\ Len(call.est) = 1 => T_kf = Identity
  /\ BootstrapCall => T_kf = Identity
  /\ TrackingCall => call.est[1].seed = Mul(call.entry.T_kf, call.guess)

\* keyframe calls entered with an accumulated pose that composition would show
C7_Witness ==
  /\ BackupCall
  /\ call.entry.T_kf # Identity
  /\ Mul(call.entry.T_kf, call.guess) # call.guess
  /\ call.est[2].seed = call.guess
  /\ Mul(call.est[2].out.T_est, Inverse(call.entry.T_kf)) # call.est[2].out.T_est
  /\ ret.displacement = call.est[2].out.T_est

----------------------------------------------------------------------------
(* C8 *)

\* C8: a call whose primary estimate is accepted and classified no-keyframe:
\* the estimator was seeded with T_kf * guess, the displacement is
\* T_est * T_kf^-1 with the T_kf of call entry, T_kf becomes T_est, the
\* submitted frame becomes the previous candidate by the swap
\* current<->previous, the reference slot is unchanged, and the Result has
\* success=true, isKeyFrame=false and no point cloud.
C8_AcceptedNoKeyFrame ==
  PrimaryAccepted /\ PrimaryReason = kNoKeyFraming =>
    /\ Len(call.est) = 1
    /\ call.est[1].seed = Mul(call.entry.T_kf, call.guess)
    /\ ret.displacement = Mul(call.est[1].out.T_est, Inverse(call.entry.T_kf))
    /\ T_kf = call.est[1].out.T_est
    /\ prev_frame = call.entry.cur_frame
    /\ cur_frame = call.entry.prev_frame
    /\ Prev.image = call.image
    /\ ~empty(Prev)
    /\ ref_frame = call.entry.ref_frame
    /\ Ref = EntryRef
    /\ ret.success = TRUE
    /\ ret.isKeyFrame = FALSE
    /\ ret.keyFramingReason = kNoKeyFraming
    /\ ret.pointCloud.null

\* a step on which the side of the inverse shows
C8_Witness ==
  /\ PrimaryAccepted
  /\ PrimaryReason = kNoKeyFraming
  /\ call.entry.T_kf # Identity
  /\ Mul(call.est[1].out.T_est, Inverse(call.entry.T_kf)) #
       Mul(Inverse(call.entry.T_kf), call.est[1].out.T_est)
  /\ ret.displacement = Mul(call.est[1].out.T_est, Inverse(call.entry.T_kf))

----------------------------------------------------------------------------
(* C9 *)

\* C9: a call runs the estimator at most twice: not at all in bootstrap, once
\* in a tracking call or a keyframe call without a previous frame, twice
\* exactly in a keyframe call with a previous frame; the first run is the
\* primary one, against the reference of call entry, and the second one
\* follows it, against the promoted previous frame.
C9_AtMostTwoEstimations ==
  Returned =>
    /\ Len(call.est) <= 2
    /\ BootstrapCall => Len(call.est) = 0
    /\ TrackingCall /\ PrimaryReason = kNoKeyFraming => Len(call.est) = 1
    /\ StarvedCall => Len(call.est) = 1
    /\ BackupCall => Len(call.est) = 2
    /\ Len(call.est) = 2 =>
         /\ BackupCall
         /\ call.est[1].ref = call.entry.ref_frame
         /\ call.est[1].seed = Mul(call.entry.T_kf, call.guess)
         /\ call.est[2].ref = call.entry.prev_frame
         /\ call.est[2].cur = call.est[1].cur

C9_Witness ==
  /\ BackupCall
  /\ Len(call.est) = 2
  /\ call.est[1].ref # call.est[2].ref

----------------------------------------------------------------------------
(* C10 *)

TranslationFires(a, P) ==
  TranslationSquaredNorm(a.pose) > P.minTranslationMagToKeyFrame * P.minTranslationMagToKeyFrame
RotationFires(a, P) ==
  EulerAnglesSquaredNorm(a.pose) > P.minRotationMagToKeyFrame * P.minRotationMagToKeyFrame
FractionFires(a, P) ==
  a.frac_good < P.maxFractionOfGoodPointsToKeyFrame

\* C10: shouldKeyFrame answers large-translation whenever the translation test
\* fires, large-rotation only when it does not and the rotation test fires,
\* low-good-fraction only when neither motion test fires and the fraction is
\* below the minimum, and no-keyframe exactly when none fires.
C10_FirstMatchWins ==
  fnOut.given =>
    /\ TranslationFires(fnArgs, params) => fnOut.value = kLargeTranslation
    /\ fnOut.value = kLargeRotation <=>
         ~TranslationFires(fnArgs, params) /\ RotationFires(fnArgs, params)
    /\ fnOut.value = kSmallFracOfGoodPoints <=>
         /\ ~TranslationFires(fnArgs, params)
         /\ ~RotationFires(fnArgs, params)
         /\ FractionFires(fnArgs, params)
    /\ fnOut.value = kNoKeyFraming <=>
         /\ ~TranslationFires(fnArgs, params)
         /\ ~RotationFires(fnArgs, params)
         /\ ~FractionFires(fnArgs, params)

C10_Witness ==
  /\ fnOut.given
  /\ TranslationFires(fnArgs, params)
  /\ RotationFires(fnArgs, params)
  /\ FractionFires(fnArgs, params)
  /\ fnOut.value = kLargeTranslation

----------------------------------------------------------------------------
(* C11 *)

\* a keyframe call in which the weights of the primary estimate do not match
\* the points of the outgoing reference
WeightMismatch ==
  /\ TrackingCall
  /\ ret.isKeyFrame
  /\ call.est[1].out.numWeights #
       Len(pointsAtLevel(call.entry, params.maxTestLevel, 0, params).points)

\* the same call, had the estimator returned as many weights as there are points
WithMatchingWeights ==
  addFrame(call.entry, call.image, call.guess,
           [call.est[1].out EXCEPT !.numWeights = numPoints(EntryRef)],
           IF Len(call.est) = 2 THEN call.est[2].out ELSE NoEstimate(params),
           params)

\* C11: when the point count of the outgoing reference at the test level
\* differs from the weight count of the estimator at keyframe time, the call
\* returns a Result (no error) without point cloud, and the keyframe transition
\* is the one the call would make with a point cloud: same slots, frames, T_kf
\* and trajectory, same estimator runs and the same Result but for the cloud.
C11_NullCloudKeepsTransition ==
  WeightMismatch =>
    /\ ret.returned
    /\ ret.pointCloud = nullptr
    /\ LET w == WithMatchingWeights
       IN /\ ~w.ret.pointCloud.null
          /\ w.ret = [ret EXCEPT !.pointCloud = w.ret.pointCloud]
          /\ w.impl.frames = frames
          /\ w.impl.ref_frame = ref_frame
          /\ w.impl.cur_frame = cur_frame
          /\ w.impl.prev_frame = prev_frame
          /\ w.impl.T_kf = T_kf
          /\ w.impl.trajectory = trajectory
          /\ Len(w.impl.est) = Len(call.est)
          /\ \A i \in 1..Len(call.est) :
               /\ w.impl.est[i].ref = call.est[i].ref
               /\ w.impl.est[i].cur = call.est[i].cur
               /\ w.impl.est[i].seed = call.est[i].seed

C11_Witness ==
  /\ WeightMismatch
  /\ BackupCall
  /\ ret.pointCloud.null
  /\ ret.success
  /\ call.entry.T_kf # Identity
  /\ ref_frame = call.entry.prev_frame

----------------------------------------------------------------------------
(* C12 *)

InvalidCall == call.made /\ (call.imageMat.empty \/ call.disparityMat.empty)

\* C12: an addFrame call with an empty image or an empty disparity ends with
\* the invalid-input error and no other call does; the three slots, the frames
\* they hold, T_kf and the trajectory are after the failed call what they were
\* at its entry, and no estimation was run.
C12_InvalidInputTouchesNothing ==
  /\ call.made => (InvalidCall <=> ret = InvalidInput)
  /\ InvalidCall =>
       /\ frames = call.entry.frames
       /\ ref_frame = call.entry.ref_frame
       /\ cur_frame = call.entry.cur_frame
       /\ prev_frame = call.entry.prev_frame
       /\ T_kf = call.entry.T_kf
       /\ trajectory = call.entry.trajectory
       /\ call.est = <<>>

\* a failed call on an instance that tracks: there is state to lose
C12_Witness ==
  /\ InvalidCall
  /\ ret = InvalidInput
  /\ ~call.imageMat.empty
  /\ call.disparityMat.empty
  /\ hasTemplate(Ref)
  /\ ~empty(Prev)
  /\ T_kf # Identity

----------------------------------------------------------------------------
(* C13 *)

Queried == fnOut # NoArgs

\* C13 as stated: a query of pointsAtLevel or numPointsAtLevel made before any
\* frame was added fails with the no-reference error and reads no template
\* data; made after the first addFrame call it returns the data of the
\* reference frame, a negative level standing for the test level.
C13_AsStated ==
  Queried =>
    /\ nframes = 0 => fnOut.value = NoReferenceFrame
    /\ nframes > 0 =>
         /\ fnOut.value.returned
         /\ fnOut.value.frame = ref_frame
         /\ fnOut.value.level =
              (IF fnArgs.level < 0 THEN params.maxTestLevel ELSE fnArgs.level)

\* what the queries do: they never fail; before the first frame they read the
\* template data of the reference slot's frame, which has no template
C13_QueryReadsUntemplatedFrame ==
  /\ Queried
  /\ nframes = 0
  /\ fnOut.value.returned
  /\ fnOut.value.frame = ref_frame
  /\ ~hasTemplate(Ref)

----------------------------------------------------------------------------
(* C14 *)

\* the cloud line 197 extracts from the reference the call found at entry
CloudOfOutgoingReference ==
  IF call.est[1].out.numWeights = numPoints(EntryRef)
    THEN [null |-> FALSE,
          points |-> points(EntryRef, params.maxTestLevel, 0)]
    ELSE nullptr

\* C14: in a keyframe call with a previous frame the Result is decided by the
\* second estimation alone: rejected by checkResult, reason estimation-failed
\* and success=false; accepted with a trigger from shouldKeyFrame, that trigger
\* and success=false; accepted without trigger, success=true.  In all three the
\* Result has isKeyFrame=true, the cloud extracted from the outgoing reference
\* and the statistics of the second estimation, and displacement and T_kf are
\* the second T_est.
C14_BackupDecidedBySecondEstimate ==
  BackupCall =>
    LET e2 == call.est[2].out
        accepted == checkResult(e2.stats, params)
        trigger == shouldKeyFrame(e2.T_est, e2.fracGood, params)
    IN /\ ~accepted =>
            /\ ret.keyFramingReason = kEstimationFailed
            /\ ret.success = FALSE
            /\ ~DecidedOn(2)
       /\ accepted /\ trigger # kNoKeyFraming =>
            /\ ret.keyFramingReason = trigger
            /\ ret.success = FALSE
       /\ accepted /\ trigger = kNoKeyFraming => ret.success = TRUE
       /\ accepted => DecidedOn(2) /\ DecisionOn(2) = trigger
       /\ ret.isKeyFrame = TRUE
       /\ ret.pointCloud = CloudOfOutgoingReference
       /\ ret.optimizerStatistics = e2.stats
       /\ ret.displacement = e2.T_est
       /\ T_kf = e2.T_est

\* the primary estimate was accepted, the second one rejected, and its pose kept
C14_Witness ==
  /\ BackupCall
  /\ PrimaryAccepted
  /\ ~checkResult(call.est[2].out.stats, params)
  /\ call.est[2].out.stats # call.est[1].out.stats
  /\ T_kf = call.est[2].out.T_est
  /\ T_kf # Identity
  /\ ~ret.pointCloud.null

----------------------------------------------------------------------------
(* C15 *)

\* finalError / numPixels of the test level is above the threshold
RatioExceeds(stats, P) ==
  LET st == stats[P.maxTestLevel]
  IN \/ st.numPixels > 0 /\ st.finalError > P.maxSolutionError * st.numPixels
     \/ st.numPixels = 0 /\ st.finalError > 0

\* C15: checkResult(stats) accepts if and only if the ratio finalError /
\* numPixels of level maxTestLevel does not exceed the error threshold and no
\* level from maxTestLevel to the last one reports solver error; the levels
\* below maxTestLevel do not change the answer.
C15_CheckResultIff ==
  fnOut.given =>
    /\ fnOut.value <=>
         /\ ~RatioExceeds(fnArgs.stats, params)
         /\ \A i \in DOMAIN fnArgs.stats :
              i >= params.maxTestLevel => fnArgs.stats[i].status # kSolverError
    /\ fnOut.valueLower = fnOut.value

\* accepted although a level below the test level reports a solver error
C15_Witness ==
  /\ fnOut.given
  /\ fnOut.value
  /\ params.maxTestLevel = 1
  /\ fnArgs.stats[0].status = kSolverError
  /\ fnArgs.stats[0].finalError = 3
  /\ fnArgs.lower.status = kConverged
  /\ fnArgs.stats[1].finalError = 2

----------------------------------------------------------------------------
(* C16 *)

\* the slots whose frame object is not the one they held at call entry
SlotsChanged ==
  {x \in {"ref", "cur", "prev"} :
     \/ x = "ref" /\ ref_frame # call.entry.ref_frame
     \/ x = "cur" /\ cur_frame # call.entry.cur_frame
     \/ x = "prev" /\ prev_frame # call.entry.prev_frame}

\* C16: the reference, current and previous slots always hold a permutation
\* of the three frame objects made by the constructor: no slot is null, no two
\* slots own the same object, there are exactly three objects, no two of them
\* hold the same image, and a call that returns has exchanged the objects of
\* exactly two slots.
C16_SlotsArePermutation ==
  /\ DOMAIN frames = 1..3
  /\ {ref_frame, cur_frame, prev_frame} = 1..3
  /\ NullFrame \notin {ref_frame, cur_frame, prev_frame}
  /\ \A i, j \in DOMAIN frames :
       i # j /\ ~empty(frames[i]) /\ ~empty(frames[j]) =>
         frames[i].image.seq # frames[j].image.seq
  /\ Returned =>
       /\ Cardinality(SlotsChanged) = 2
       /\ {ref_frame, cur_frame, prev_frame} =
            {call.entry.ref_frame, call.entry.cur_frame, call.entry.prev_frame}

\* every slot owns another object than the constructor gave it, and all three
\* objects hold an image
C16_Witness ==
  /\ Returned
  /\ ref_frame # 1
  /\ cur_frame # 2
  /\ prev_frame # 3
  /\ ~empty(Ref) /\ ~empty(Cur) /\ ~empty(Prev)
  /\ Cardinality(SlotsChanged) = 2

----------------------------------------------------------------------------
(* C17 *)

\* C17: every run of estimatePose in a call is given a templated reference
\* and, as the frame to align, the frame submitted in that call, which is
\* another frame object than the reference; the first run is against the
\* reference of call entry, and a second run is against the previous frame of
\* call entry, after it was swapped into the reference slot and templated.
C17_EstimateAgainstTemplatedReference ==
  Returned =>
    /\ \A i \in 1..Len(call.est) :
         /\ hasTemplate(call.est[i].refFrame)
         /\ ~empty(call.est[i].curFrame)
         /\ call.est[i].curFrame.image = call.image
         /\ call.est[i].cur = call.entry.cur_frame
         /\ call.est[i].ref # call.est[i].cur
         /\ call.est[i].refFrame.image.seq < call.image.seq
    /\ Len(call.est) >= 1 => call.est[1].refFrame = EntryRef
    /\ Len(call.est) = 2 =>
         /\ call.est[2].ref = call.entry.prev_frame
         /\ call.est[2].ref = ref_frame
         /\ call.est[2].refFrame = setTemplate(EntryPrev)
         /\ ~hasTemplate(EntryPrev)

\* a re-estimation against the frame submitted one call earlier
C17_Witness ==
  /\ BackupCall
  /\ Len(call.est) = 2
  /\ hasTemplate(call.est[2].refFrame)
  /\ call.est[2].refFrame.image.seq = call.image.seq - 1
  /\ call.est[1].refFrame.image.seq < call.est[2].refFrame.image.seq
  /\ call.est[2].curFrame.image = call.image

----------------------------------------------------------------------------
(* C18 *)

\* C18: the trajectory is empty until the first frame is added; the first
\* call appends the identity pose, and no later call changes it: after one or
\* more frames it has exactly one entry.
C18_TrajectoryHasOneEntry ==
  /\ nframes = 0 => trajectory = <<>>
  /\ nframes >= 1 => trajectory = <<Identity>>
  /\ Returned /\ nframes = 1 => call.entry.trajectory = <<>>
  /\ Returned /\ nframes > 1 => call.entry.trajectory = trajectory

\* a call after the first that moved the pose and left the trajectory alone
C18_Witness ==
  /\ Returned
  /\ nframes >= 3
  /\ ret.displacement # Identity
  /\ T_kf # Identity
  /\ Len(trajectory) = 1
  /\ call.entry.trajectory = trajectory

----------------------------------------------------------------------------
(* C19 *)

\* C19 as stated, at the end of the preceding call (nothing between two calls
\* changes the slots): after every addFrame call, however it ended, the
\* previous slot is non-empty if and only if the call returned
\* isKeyFrame=false, and the frame it then holds, the one a re-estimation in
\* the next call promotes, is the frame submitted in this call.
C19_AsStated ==
  call.made =>
    /\ ~empty(Prev) <=> (Returned /\ ~ret.isKeyFrame)
    /\ ~empty(Prev) => Prev.image = call.image

\* C19 amended: at the start of every addFrame call the previous slot is
\* non-empty if and only if the last call that returned a Result (calls that
\* failed with the invalid-input error aside) returned isKeyFrame=false; a
\* re-estimation promotes exactly the frame submitted in that call; and a
\* keyframe trigger in the call after bootstrap or after a call that returned
\* isKeyFrame=true runs no re-estimation and takes the branch without
\* previous frame.
C19_PreviousFrameIffNoKeyFrame ==
  /\ call.made =>
       /\ ~empty(EntryPrev) <=> (call.last.returned /\ ~call.last.isKeyFrame)
       /\ ~empty(EntryPrev) => EntryPrev.image = call.last.image
  /\ BackupCall =>
       /\ call.last.returned
       /\ ~call.last.isKeyFrame
       /\ Ref.image = call.last.image
       /\ call.est[2].refFrame.image = call.last.image
  /\ TrackingCall /\ ret.isKeyFrame /\ call.last.isKeyFrame =>
       /\ StarvedCall
       /\ Len(call.est) = 1
       /\ ret.success = FALSE
  /\ ~Returned =>
       (~empty(Prev) <=> (last.returned /\ ~last.isKeyFrame))

\* a re-estimation that succeeds on the frame of the last call that returned
C19_Witness ==
  /\ BackupCall
  /\ call.last.returned
  /\ ~call.last.isKeyFrame
  /\ Ref.image = call.last.image
  /\ call.last.image.seq = call.image.seq - 1
  /\ ret.success

----------------------------------------------------------------------------
(* C20 *)

\* C20: in every Result addFrame returns, success=true holds if and only if
\* the reason is no-keyframe; a keyframe call whose re-estimation succeeds
\* returns isKeyFrame=true with reason no-keyframe, the trigger of the primary
\* estimate being overwritten; and isKeyFrame is what line 180 computed from
\* the reason of the primary estimate.
C20_SuccessIffNoKeyFrameReason ==
  Returned =>
    /\ ret.success <=> ret.keyFramingReason = kNoKeyFraming
    /\ BackupCall /\ ret.success =>
         /\ ret.isKeyFrame = TRUE
         /\ ret.keyFramingReason = kNoKeyFraming
         /\ PrimaryReason # kNoKeyFraming
         /\ DecisionOn(2) = kNoKeyFraming
    /\ TrackingCall => ret.isKeyFrame = (PrimaryReason # kNoKeyFraming)
    /\ BootstrapCall => ret.isKeyFrame = TRUE /\ ret.success = FALSE

\* a successful keyframe call: the trigger of the primary estimate is gone
C20_Witness ==
  /\ BackupCall
  /\ PrimaryReason = kLargeTranslation
  /\ ret.success
  /\ ret.isKeyFrame
  /\ ret.keyFramingReason = kNoKeyFraming

====
